---- MODULE Spec2Model ----
(***************************************************************************)
(* Repeated-measures Bland-Altman analysis (RepBlandAltman.py).            *)
(*                                                                         *)
(* The module models the five analysis functions and main() as operators   *)
(* over long-format data frames, and a caller that invokes them.           *)
(*                                                                         *)
(* Numbers.  The Python code computes in float64.  Here a number is exact: *)
(* NaN, +inf, -inf, or a finite value  a + sgn(s)*sqrt(|s|)  with a and s  *)
(* rationals (s = 0 for a rational number).  That is closed under every    *)
(* operation the code performs (one square root, then a scaling by 1.96,   *)
(* an addition to a rational and comparisons with rationals).  Rounding    *)
(* error and the sign of zero are outside the model; NaN and the           *)
(* infinities follow IEEE-754 as numpy applies it (a warning, no raise).   *)
(***************************************************************************)
EXTENDS Integers, Sequences, FiniteSets

----------------------------------------------------------------------------
(* Exact rationals <<n, d>>, d > 0, in lowest terms.                       *)

Abs(i) == IF i < 0 THEN -i ELSE i

Sgn(i) == IF i < 0 THEN -1 ELSE IF i > 0 THEN 1 ELSE 0

RECURSIVE Gcd(_, _)
Gcd(a, b) == IF b = 0 THEN a ELSE Gcd(b, a % b)

Rat(n, d) ==
    LET g == Gcd(Abs(n), Abs(d))
        sg == IF d < 0 THEN -1 ELSE 1
    IN  <<(sg * n) \div g, (sg * d) \div g>>

RInt(i) == <<i, 1>>

RAdd(p, q) == Rat(p[1] * q[2] + q[1] * p[2], p[2] * q[2])

RNeg(p) == <<-p[1], p[2]>>

RSub(p, q) == RAdd(p, RNeg(q))

RMul(p, q) == Rat(p[1] * q[1], p[2] * q[2])

RDiv(p, q) == Rat(p[1] * q[2], p[2] * q[1])

RSgn(p) == Sgn(p[1])

RLt(p, q) == p[1] * q[2] < q[1] * p[2]

IsSquare(i) == \E r \in 0..i : r * r = i

ISqrt(i) == CHOOSE r \in 0..i : r * r = i

----------------------------------------------------------------------------
(* float64 values.                                                         *)

NaN == [k |-> "nan", a |-> <<0, 1>>, s |-> <<0, 1>>]

PInf == [k |-> "inf", a |-> <<1, 1>>, s |-> <<0, 1>>]

NInf == [k |-> "inf", a |-> <<-1, 1>>, s |-> <<0, 1>>]

Inf(sg) == IF sg < 0 THEN NInf ELSE PInf

Fin(a, s) == [k |-> "fin", a |-> a, s |-> s]

Num(n, d) == Fin(Rat(n, d), <<0, 1>>)

Whole(i) == Num(i, 1)

IsNaN(x) == x.k = "nan"

IsFinite(x) == x.k = "fin"

\* sign of a finite value a + sgn(s)*sqrt(|s|)
FinSgn(x) ==
    LET sa == RSgn(x.a)
        ss == RSgn(x.s)
    IN  IF ss = 0 THEN sa
        ELSE IF sa = 0 \/ sa = ss THEN ss
        ELSE LET a2 == RMul(x.a, x.a)
                 q == <<Abs(x.s[1]), x.s[2]>>
             IN  IF RLt(q, a2) THEN sa ELSE IF RLt(a2, q) THEN ss ELSE 0

NSgn(x) == IF x.k = "inf" THEN RSgn(x.a) ELSE FinSgn(x)

NNeg(x) ==
    CASE x.k = "nan" -> NaN
      [] x.k = "inf" -> Inf(-RSgn(x.a))
      [] x.k = "fin" -> Fin(RNeg(x.a), RNeg(x.s))

\* x + y; two finite values add when their radical parts do not both
\* survive (one is rational, or they cancel).
NAdd(x, y) ==
    CASE IsNaN(x) \/ IsNaN(y) -> NaN
      [] x.k = "inf" /\ y.k = "inf" -> IF x = y THEN x ELSE NaN
      [] x.k = "inf" /\ y.k = "fin" -> x
      [] x.k = "fin" /\ y.k = "inf" -> y
      [] x.k = "fin" /\ y.k = "fin" /\ RSgn(y.s) = 0 -> Fin(RAdd(x.a, y.a), x.s)
      [] x.k = "fin" /\ y.k = "fin" /\ RSgn(y.s) # 0 /\ RSgn(x.s) = 0 ->
            Fin(RAdd(x.a, y.a), y.s)
      [] x.k = "fin" /\ y.k = "fin" /\ RSgn(y.s) # 0 /\ x.s = RNeg(y.s) ->
            Fin(RAdd(x.a, y.a), <<0, 1>>)

NSub(x, y) == NAdd(x, NNeg(y))

\* x * y; a finite product needs one rational factor and a pure radical or
\* rational other factor.
NMul(x, y) ==
    CASE IsNaN(x) \/ IsNaN(y) -> NaN
      [] x.k = "inf" \/ y.k = "inf" ->
            IF NSgn(x) = 0 \/ NSgn(y) = 0 THEN NaN ELSE Inf(NSgn(x) * NSgn(y))
      [] x.k = "fin" /\ y.k = "fin" /\ RSgn(x.s) = 0 /\ RSgn(y.s) = 0 ->
            Fin(RMul(x.a, y.a), <<0, 1>>)
      [] x.k = "fin" /\ y.k = "fin" /\ RSgn(x.s) # 0 /\ RSgn(y.s) = 0
                /\ RSgn(x.a) = 0 ->
            Fin(<<0, 1>>, RMul(RMul(x.s, RMul(y.a, y.a)), RInt(RSgn(y.a))))
      [] x.k = "fin" /\ y.k = "fin" /\ RSgn(x.s) = 0 /\ RSgn(y.s) # 0
                /\ RSgn(y.a) = 0 ->
            Fin(<<0, 1>>, RMul(RMul(y.s, RMul(x.a, x.a)), RInt(RSgn(x.a))))

\* x / y for rational finite operands; division by zero gives NaN or an
\* infinity, as numpy's true division does.
NDiv(x, y) ==
    CASE IsNaN(x) \/ IsNaN(y) -> NaN
      [] x.k = "inf" /\ y.k = "inf" -> NaN
      [] x.k = "inf" /\ y.k = "fin" ->
            IF NSgn(y) < 0 THEN NNeg(x) ELSE x
      [] x.k = "fin" /\ y.k = "inf" -> Whole(0)
      [] x.k = "fin" /\ y.k = "fin" /\ NSgn(y) = 0 ->
            IF NSgn(x) = 0 THEN NaN ELSE Inf(NSgn(x))
      [] x.k = "fin" /\ y.k = "fin" /\ NSgn(y) # 0
                /\ RSgn(x.s) = 0 /\ RSgn(y.s) = 0 ->
            Fin(RDiv(x.a, y.a), <<0, 1>>)

\* np.sqrt of a rational: NaN below zero, exact on perfect squares.
NSqrt(x) ==
    CASE IsNaN(x) -> NaN
      [] x.k = "inf" -> IF x = PInf THEN PInf ELSE NaN
      [] x.k = "fin" /\ NSgn(x) < 0 -> NaN
      [] x.k = "fin" /\ NSgn(x) >= 0 /\ RSgn(x.s) = 0 ->
            IF IsSquare(x.a[1]) /\ IsSquare(x.a[2])
            THEN Num(ISqrt(x.a[1]), ISqrt(x.a[2]))
            ELSE Fin(<<0, 1>>, x.a)

\* x < y; every comparison with NaN is false.
NLt(x, y) ==
    /\ ~IsNaN(x)
    /\ ~IsNaN(y)
    /\ x # y
    /\ CASE x.k = "inf" -> x = NInf
         [] x.k = "fin" /\ y.k = "inf" -> y = PInf
         [] x.k = "fin" /\ y.k = "fin" -> FinSgn(NSub(x, y)) < 0

NGt(x, y) == NLt(y, x)

----------------------------------------------------------------------------
(* Data frames: a frame maps each column it has to that column's cells, as *)
(* a pandas DataFrame does.  A subject identifier is a string, modelled as *)
(* the sequence of its characters.                                         *)

MaxRows == 4

Ids == {<<"S", "1">>, <<"S", "1", "0">>, <<"S", "2">>}

Vals == {-1, 2}

SeqsUpTo(S, n) == UNION {[1..m -> S] : m \in 0..n}

\* a frame with both columns, m rows
IsFullFrame(f, m) ==
    \E ps \in [1..m -> Ids], vs \in [1..m -> Vals] :
        f = [participants |-> ps, variables |-> vs]

\* a frame lacking one of the two columns
IsPartialFrame(f) ==
    \/ \E vs \in SeqsUpTo(Vals, 1) : f = [variables |-> vs]
    \/ \E ps \in SeqsUpTo(Ids, 1) : f = [participants |-> ps]

HasColumn(data, c) == c \in DOMAIN data

Return(v) == [status |-> "return", value |-> v]

Raise(e) == [status |-> "raise", value |-> e]

RECURSIVE SumSeq(_)
SumSeq(s) == IF s = <<>> THEN 0 ELSE s[1] + SumSeq(Tail(s))

----------------------------------------------------------------------------
(* observations                                                            *)

\* pd.unique: the distinct cells in order of first occurrence
RECURSIVE Unique(_)
Unique(s) ==
    IF s = <<>> THEN <<>>
    ELSE LET front == Unique(SubSeq(s, 1, Len(s) - 1))
             last == s[Len(s)]
         IN  IF \E i \in 1..Len(front) : front[i] = last
             THEN front
             ELSE Append(front, last)

MatchesAt(s, p, i) ==
    /\ i + Len(p) - 1 <= Len(s)
    /\ \A j \in 1..Len(p) : s[i + j - 1] = p[j]

\* Series.str.count(p) on one cell: the number of non-overlapping
\* occurrences of the pattern p in s, scanning from position i.  The
\* identifiers hold no regular-expression metacharacters.
RECURSIVE CountFrom(_, _, _)
CountFrom(s, p, i) ==
    IF i > Len(s) THEN 0
    ELSE IF MatchesAt(s, p, i) THEN 1 + CountFrom(s, p, i + Len(p))
    ELSE CountFrom(s, p, i + 1)

StrCount(s, p) == CountFrom(s, p, 1)

\* a variant that counts only the first unbroken run of rows of each
\* participant, as if the rows were grouped
RECURSIVE RunLength(_, _, _)
RunLength(col, p, r) ==
    IF r > Len(col) \/ col[r] # p THEN 0 ELSE 1 + RunLength(col, p, r + 1)

observations_firstRun(data) ==
    IF ~HasColumn(data, "participants") THEN Raise("KeyError")
    ELSE LET col == data["participants"]
             participants == Unique(col)
         IN  Return([count \in 1..Len(participants) |->
                        RunLength(col, participants[count],
                                  CHOOSE r \in 1..Len(col) :
                                      /\ col[r] = participants[count]
                                      /\ \A q \in 1..(r - 1) :
                                            col[q] # participants[count])])

observations(data) ==
    IF ~HasColumn(data, "participants") THEN Raise("KeyError")
    ELSE LET col == data["participants"]
             participants == Unique(col)
         IN  Return([count \in 1..Len(participants) |->
                        SumSeq([r \in 1..Len(col) |->
                                    StrCount(col[r], participants[count])])])

----------------------------------------------------------------------------
(* ANOVA_MS: the one-way ANOVA of variables on participants.  The fit is   *)
(* statsmodels'; its sums of squares and degrees of freedom are the        *)
(* classical ones for a single categorical factor.  What the library does  *)
(* with a design that has no between- or no within-subject degree of       *)
(* freedom is not decided by this code, so the model calls ANOVA_MS on     *)
(* designs where the ANOVA is defined.                                     *)

RECURSIVE RSum(_)
RSum(s) == IF s = <<>> THEN <<0, 1>> ELSE RAdd(s[1], RSum(Tail(s)))

RSquare(p) == RMul(p, p)

GroupSize(ps, p) == Cardinality({i \in 1..Len(ps) : ps[i] = p})

GroupMean(ps, vs, p) ==
    Rat(SumSeq([i \in 1..Len(ps) |-> IF ps[i] = p THEN vs[i] ELSE 0]),
        GroupSize(ps, p))

SumSqBetween(ps, vs) ==
    LET groups == Unique(ps)
        grand == Rat(SumSeq(vs), Len(vs))
    IN  RSum([g \in 1..Len(groups) |->
                RMul(RInt(GroupSize(ps, groups[g])),
                     RSquare(RSub(GroupMean(ps, vs, groups[g]), grand)))])

SumSqResidual(ps, vs) ==
    RSum([i \in 1..Len(vs) |->
            RSquare(RSub(RInt(vs[i]), GroupMean(ps, vs, ps[i])))])

\* at least two subjects, and more rows than subjects
AnovaDefined(data) ==
    /\ HasColumn(data, "participants")
    /\ HasColumn(data, "variables")
    /\ Len(Unique(data["participants"])) >= 2
    /\ Len(data["variables"]) > Len(Unique(data["participants"]))

ANOVA_MS(data) ==
    LET ps == data["participants"]
        vs == data["variables"]
        df_participants == Len(Unique(ps)) - 1
        df_Residual == Len(vs) - Len(Unique(ps))
        MS_between == NDiv(Fin(SumSqBetween(ps, vs), <<0, 1>>),
                           Whole(df_participants))
        MS_within == NDiv(Fin(SumSqResidual(ps, vs), <<0, 1>>),
                          Whole(df_Residual))
    IN  Return(<<MS_between, MS_within>>)

----------------------------------------------------------------------------
(* RBA_SD                                                                  *)

\* a variant that reads the formula of the comment at line 65 with Python's
\* precedence: ((sum(mi))^2 - sum(mi^2)) / (n - 1) * sum(mi)
num_observations_precedence(obsv) ==
    NMul(NDiv(Whole(SumSeq(obsv) * SumSeq(obsv)
                    - SumSeq([i \in 1..Len(obsv) |-> obsv[i] * obsv[i]])),
              Whole(Len(obsv) - 1)),
         Whole(SumSeq(obsv)))

\* ((sum(mi))^2 - sum(mi^2)) / ((n - 1) * sum(mi)), an int64 true division
num_observations(obsv) ==
    NDiv(Whole(SumSeq(obsv) * SumSeq(obsv)
                - SumSeq([i \in 1..Len(obsv) |-> obsv[i] * obsv[i]])),
         Whole((Len(obsv) - 1) * SumSeq(obsv)))

\* the local variables of RBA_SD when it returns
RBA_SD_locals(obsv, MS_between, MS_within) ==
    LET diff_accrossSubjects == NSub(MS_between, MS_within)
        diff_withinSubject == MS_within
        varianceHetro == NDiv(diff_accrossSubjects, num_observations(obsv))
        totalVariance == NAdd(varianceHetro, diff_withinSubject)
    IN  [num_observations |-> num_observations(obsv),
         varianceHetro |-> varianceHetro,
         totalVariance |-> totalVariance,
         SD |-> NSqrt(totalVariance)]

RBA_SD(obsv, MS_between, MS_within) ==
    Return(RBA_SD_locals(obsv, MS_between, MS_within).SD)

----------------------------------------------------------------------------
(* RBA_values                                                              *)

\* the literal 1.96
Z == Num(49, 25)

\* Series.mean(): NaN on an empty column
Mean(vs) == NDiv(Whole(SumSeq(vs)), Whole(Len(vs)))

\* a variant whose limits lie one SD from the bias
RBA_values_unscaled(data, SD) ==
    IF ~HasColumn(data, "variables") THEN Raise("KeyError")
    ELSE LET bias == Mean(data["variables"])
         IN  Return([bias |-> bias,
                     LOA_L |-> NSub(bias, SD),
                     LOA_U |-> NAdd(bias, SD)])

RBA_values(data, SD) ==
    IF ~HasColumn(data, "variables") THEN Raise("KeyError")
    ELSE LET bias == Mean(data["variables"])
         IN  Return([bias |-> bias,
                     LOA_L |-> NSub(bias, NMul(SD, Z)),
                     LOA_U |-> NAdd(bias, NMul(SD, Z))])

----------------------------------------------------------------------------
(* commonSenseTesting                                                      *)

\* a variant that counts the rows on a limit
Inside_inclusive(v, LOA_L, LOA_U) ==
    ~NLt(Whole(v), LOA_L) /\ ~NGt(Whole(v), LOA_U)
        /\ ~IsNaN(LOA_L) /\ ~IsNaN(LOA_U)

\* (data['variables'] > LOA_L) & (data['variables'] < LOA_U), one row
Inside(v, LOA_L, LOA_U) == NGt(Whole(v), LOA_L) /\ NLt(Whole(v), LOA_U)

\* sum(commonSense == True) / length: the builtin sum of an empty Series is
\* the int 0, and 0 / 0 on ints raises; otherwise a numpy true division.
commonSenseTesting(data, LOA_L, LOA_U) ==
    IF ~HasColumn(data, "variables") THEN Raise("KeyError")
    ELSE LET vs == data["variables"]
             length == Len(vs)
             hits == Cardinality({i \in 1..length : Inside(vs[i], LOA_L, LOA_U)})
         IN  IF length = 0 THEN Raise("ZeroDivisionError")
             ELSE Return(NDiv(Whole(hits), Whole(length)))

----------------------------------------------------------------------------
(* main                                                                    *)

\* the names locals() holds when main tests it: its one parameter
MainLocals == {"args"}

\* lines 107-122 on the frame bound to data
Analysis(data) ==
    LET obsv == observations(data).value
        MS == ANOVA_MS(data).value
        SD == RBA_SD(obsv, MS[1], MS[2]).value
        vals == RBA_values(data, SD).value
        commonSense == commonSenseTesting(data, vals.LOA_L, vals.LOA_U).value
    IN  Return([data |-> data,
                obsv |-> obsv,
                bias |-> vals.bias,
                SD |-> SD,
                LOA_L |-> vals.LOA_L,
                LOA_U |-> vals.LOA_U,
                commonSense |-> commonSense])

\* main(*args): 'data' is never among the locals, so the example file is
\* read whatever args holds.  csv is that file without its index column.
main(a, file) ==
    IF "data" \in MainLocals THEN Analysis(a[1]) ELSE Analysis(file)

----------------------------------------------------------------------------
(* The caller.  csv is the bundled example file, which the caller may also *)
(* load and pass to the functions one by one; op, args and out record the  *)
(* call made, its arguments and its outcome, until the caller takes them.  *)

MaxSubjects == 3

MaxCount == 3

MaxMS == 2

CountArrays == SeqsUpTo(0..MaxCount, MaxSubjects)

MeanSquares == {Num(n, d) : n \in 0..MaxMS, d \in 1..2}

SDValues == {NaN, PInf, Whole(-1), Whole(0), Num(1, 2), Whole(2), NSqrt(Whole(2))}

LowerLimits == {NaN, NInf, Whole(-1), Num(1, 2), NNeg(NSqrt(Whole(2)))}

UpperLimits == {NaN, PInf, Whole(2), Num(1, 2), NSqrt(Whole(3))}

\* datasets a caller hands to main
SuppliedFrames ==
    {[participants |-> <<<<"S", "1", "0">>, <<"S", "1">>, <<"S", "1">>>>,
      variables |-> <<2, -1, -1>>]}

VARIABLES csv, op, args, out

vars == <<csv, op, args, out>>

Init ==
    /\ \/ \E m \in 0..MaxRows : IsFullFrame(csv, m)
       \/ IsPartialFrame(csv)
    /\ op = "none"
    /\ args = <<>>
    /\ out = Return(<<>>)

CallObservations ==
    /\ op = "none"
    /\ op' = "observations"
    /\ args' = <<csv>>
    /\ out' = observations(csv)
    /\ UNCHANGED csv

CallANOVA_MS ==
    /\ op = "none"
    /\ AnovaDefined(csv)
    /\ op' = "ANOVA_MS"
    /\ args' = <<csv>>
    /\ out' = ANOVA_MS(csv)
    /\ UNCHANGED csv

CallRBA_SD(obsv, MS_between, MS_within) ==
    /\ op = "none"
    /\ op' = "RBA_SD"
    /\ args' = <<obsv, MS_between, MS_within>>
    /\ out' = RBA_SD(obsv, MS_between, MS_within)
    /\ UNCHANGED csv

CallRBA_values(SD) ==
    /\ op = "none"
    /\ op' = "RBA_values"
    /\ args' = <<csv, SD>>
    /\ out' = RBA_values(csv, SD)
    /\ UNCHANGED csv

CallCommonSenseTesting(LOA_L, LOA_U) ==
    /\ op = "none"
    /\ op' = "commonSenseTesting"
    /\ args' = <<csv, LOA_L, LOA_U>>
    /\ out' = commonSenseTesting(csv, LOA_L, LOA_U)
    /\ UNCHANGED csv

CallMain(a) ==
    /\ op = "none"
    /\ op' = "main"
    /\ args' = a
    /\ out' = main(a, csv)
    /\ UNCHANGED csv

\* the caller takes the outcome and is free to call again
Done ==
    /\ op # "none"
    /\ op' = "none"
    /\ args' = <<>>
    /\ out' = Return(<<>>)
    /\ UNCHANGED csv

Next ==
    \/ Done
    \/ CallObservations
    \/ CallANOVA_MS
    \/ \E SD \in SDValues : CallRBA_values(SD)
    \/ \E LOA_L \in LowerLimits, LOA_U \in UpperLimits :
            CallCommonSenseTesting(LOA_L, LOA_U)

Spec == Init /\ [][Next]_vars

\* main run on the example file, a dataset on which the ANOVA is defined
MaxFileRows == 5

InitMain ==
    /\ \E m \in 0..MaxFileRows : IsFullFrame(csv, m)
    /\ AnovaDefined(csv)
    /\ op = "none"
    /\ args = <<>>
    /\ out = Return(<<>>)

NextMain ==
    \/ Done
    \/ \E a \in {<<>>} \cup {<<d>> : d \in SuppliedFrames} : CallMain(a)

SpecMain == InitMain /\ [][NextMain]_vars

\* RBA_SD called on synthetic counts and mean squares
InitSD ==
    /\ csv = [participants |-> <<>>, variables |-> <<>>]
    /\ op = "none"
    /\ args = <<>>
    /\ out = Return(<<>>)

NextSD ==
    \/ Done
    \/ \E obsv \in CountArrays, MS_between \in MeanSquares, MS_within \in MeanSquares :
        CallRBA_SD(obsv, MS_between, MS_within)

SpecSD == InitSD /\ [][NextSD]_vars
----------------------------------------------------------------------------
(* Properties.                                                             *)

\* the number of rows whose identifier equals each distinct identifier, in
\* order of first occurrence
ExactCounts(ps) ==
    LET ids == Unique(ps)
    IN  [i \in 1..Len(ids) |-> GroupSize(ps, ids[i])]

IsObservationsCall == op = "observations" /\ HasColumn(args[1], "participants")

\* C1: observations returns, per distinct identifier in order of first
\* occurrence, the number of rows whose identifier equals it exactly; rows of
\* "S10" are not counted for "S1".
C1_ExactMatchCounts ==
    IsObservationsCall => out = Return(ExactCounts(args[1]["participants"]))

\* C2: with at least two distinct subjects, the counts observations returns
\* sum to the number of rows.
C2_CountsSumToRows ==
    (IsObservationsCall /\ Len(Unique(args[1]["participants"])) >= 2) =>
        /\ out.status = "return"
        /\ SumSeq(out.value) = Len(args[1]["participants"])

\* C3: main called with a dataset analyses that dataset; the example file is
\* analysed only when main is called without an input.
C3_MainUsesSuppliedData ==
    op = "main" => out = Analysis(IF args = <<>> THEN csv ELSE args[1])

IsRBA_SDCall == op = "RBA_SD"

\* C4: when the total variance is a negative number, RBA_SD raises or returns a
\* finite SD >= 0 (heterogeneity variance clamped); it returns no NaN.
C4_NegativeVariancePolicy ==
    (IsRBA_SDCall
        /\ IsFinite(RBA_SD_locals(args[1], args[2], args[3]).totalVariance)
        /\ NLt(RBA_SD_locals(args[1], args[2], args[3]).totalVariance, Whole(0))) =>
        \/ out.status = "raise"
        \/ /\ out.status = "return"
           /\ IsFinite(out.value)
           /\ ~NLt(out.value, Whole(0))

\* C5: RBA_SD raises a division-by-zero error, returning no SD, when there
\* is one subject or the counts sum to zero.
C5_DivisionByZeroRaised ==
    (IsRBA_SDCall /\ (Len(args[1]) = 1 \/ SumSeq(args[1]) = 0)) =>
        out.status = "raise"

\* C6: observations raises on a dataset without rows or without the subject
\* column; it returns no count sequence for such input.
C6_InvalidInputRaised ==
    (op = "observations"
        /\ (~HasColumn(args[1], "participants")
                \/ Len(args[1]["participants"]) = 0)) =>
        out.status = "raise"

Balanced(obsv) ==
    /\ Len(obsv) >= 2
    /\ obsv[1] >= 1
    /\ \A i \in 1..Len(obsv) : obsv[i] = obsv[1]

\* C7: for a balanced design of k >= 2 subjects with n >= 1 observations
\* each, the adjustment term RBA_SD computes equals n.
C7_BalancedAdjustmentIsN ==
    (IsRBA_SDCall /\ Balanced(args[1])) =>
        RBA_SD_locals(args[1], args[2], args[3]).num_observations
            = Whole(args[1][1])

C7_Witness ==
    /\ IsRBA_SDCall
    /\ args[1] = <<2, 2, 2>>
    /\ out.status = "return"

IsRBA_valuesCall == op = "RBA_values" /\ HasColumn(args[1], "variables")

\* bias is the equally weighted mean of the rows, and the limits lie
\* 1.96 * SD either side of it
BiasAndLimits(vs, SD, r) ==
    /\ NMul(r.bias, Whole(Len(vs))) = Whole(SumSeq(vs))
    /\ NLt(r.LOA_L, r.bias)
    /\ NLt(r.bias, r.LOA_U)
    /\ NSub(r.bias, r.LOA_L) = NMul(Z, SD)
    /\ NSub(r.LOA_U, r.bias) = NMul(Z, SD)

\* C8 as stated: for every dataset and every SD > 0, bias is the mean of
\* all rows and LOA_L < bias < LOA_U, symmetric at 1.96 * SD.
C8_EveryDataset ==
    (IsRBA_valuesCall /\ NGt(args[2], Whole(0))) =>
        /\ out.status = "return"
        /\ BiasAndLimits(args[1]["variables"], args[2], out.value)

\* C8 amended: the same for every dataset that has at least one row.
C8_NonEmptyDataset ==
    (IsRBA_valuesCall /\ NGt(args[2], Whole(0))
        /\ Len(args[1]["variables"]) >= 1) =>
        /\ out.status = "return"
        /\ BiasAndLimits(args[1]["variables"], args[2], out.value)

C8_Witness ==
    /\ IsRBA_valuesCall
    /\ args[1]["variables"] = <<-1, 2, 2>>
    /\ args[2] = NSqrt(Whole(2))
    /\ out.status = "return"
    /\ out.value.bias = Whole(1)

\* C9: on a non-empty dataset commonSenseTesting returns the number of rows
\* with LOA_L < v < LOA_U over the number of rows; rows equal to a limit are
\* not counted and the result lies in [0, 1].
C9_StrictFraction ==
    (op = "commonSenseTesting" /\ HasColumn(args[1], "variables")
        /\ Len(args[1]["variables"]) >= 1) =>
        LET vs == args[1]["variables"]
            within == {i \in 1..Len(vs) :
                         /\ NLt(args[2], Whole(vs[i]))
                         /\ NLt(Whole(vs[i]), args[3])
                         /\ Whole(vs[i]) # args[2]
                         /\ Whole(vs[i]) # args[3]}
        IN  /\ out.status = "return"
            /\ NMul(out.value, Whole(Len(vs))) = Whole(Cardinality(within))
            /\ ~NLt(out.value, Whole(0))
            /\ ~NGt(out.value, Whole(1))

\* a row inside the limits and a row on the upper limit
C9_Witness ==
    /\ op = "commonSenseTesting"
    /\ args[1] = [participants |-> <<<<"S", "1">>, <<"S", "1", "0">>>>,
                  variables |-> <<-1, 2>>]
    /\ args[2] = NNeg(NSqrt(Whole(2)))
    /\ args[3] = Whole(2)
    /\ out = Return(Num(1, 2))

\* the rows of a frame in a fixed order: by identifier, then by value
IdOrder == <<<<"S", "1">>, <<"S", "1", "0">>, <<"S", "2">>>>

IdRank(id) == CHOOSE i \in 1..Len(IdOrder) : IdOrder[i] = id

RowBefore(data, r1, r2) ==
    LET k1 == IdRank(data["participants"][r1])
        k2 == IdRank(data["participants"][r2])
    IN  k1 < k2 \/ (k1 = k2 /\ data["variables"][r1] <= data["variables"][r2])

RECURSIVE InsertRow(_, _, _)
InsertRow(data, order, r) ==
    IF order = <<>> THEN <<r>>
    ELSE IF RowBefore(data, r, order[1]) THEN <<r>> \o order
    ELSE <<order[1]>> \o InsertRow(data, Tail(order), r)

RECURSIVE RowOrder(_, _)
RowOrder(data, n) ==
    IF n = 0 THEN <<>> ELSE InsertRow(data, RowOrder(data, n - 1), n)

SortRows(data) ==
    LET order == RowOrder(data, Len(data["variables"]))
    IN  [c \in DOMAIN data |-> [r \in 1..Len(order) |-> data[c][order[r]]]]

SeqToBag(s) == [x \in {s[i] : i \in 1..Len(s)} |->
                    Cardinality({i \in 1..Len(s) : s[i] = x})]

\* C10: the pipeline gives every arrangement of the rows of a dataset the
\* SD, bias, limits and commonSense fraction it gives the sorted arrangement
\* of those rows (so all arrangements agree), and an obsv with the same
\* entries in some order.
C10_RowOrderInvariant ==
    op = "main" =>
        LET sorted == main(args, SortRows(csv))
        IN  /\ sorted.status = "return"
            /\ out.status = "return"
            /\ sorted.value.commonSense = out.value.commonSense
            /\ sorted.value.SD = out.value.SD
            /\ sorted.value.bias = out.value.bias
            /\ sorted.value.LOA_L = out.value.LOA_L
            /\ sorted.value.LOA_U = out.value.LOA_U
            /\ SeqToBag(sorted.value.obsv) = SeqToBag(out.value.obsv)

\* a run on unsorted rows whose fraction is neither 0 nor 1 and whose obsv
\* is ordered differently from the sorted arrangement's
C10_Witness ==
    /\ op = "main"
    /\ out.status = "return"
    /\ IsFinite(out.value.SD)
    /\ NGt(out.value.SD, Whole(0))
    /\ NGt(out.value.commonSense, Whole(0))
    /\ NLt(out.value.commonSense, Whole(1))
    /\ main(args, SortRows(csv)).value.obsv # out.value.obsv
====
